---- MODULE Spec2Model ----
(***************************************************************************)
(* Namecheap API gateway (src/src/system/gateway.py).                      *)
(*                                                                         *)
(* An HTTP server that authenticates a POST with Basic credentials, reads  *)
(* a target URL from the body and fetches it through the configured        *)
(* proxies in list order, rewriting ClientIp=... to the proxy's IP for     *)
(* each attempt.                                                           *)
(*                                                                         *)
(* Text and bytes are sequences of integers (code points, byte values):    *)
(* S(<<"a","b">>) is the text "ab".                                        *)
(***************************************************************************)
EXTENDS Integers, Sequences, FiniteSets, TLC

\* ------------------------------------------------------------------ text

\* The printable ASCII characters, in code order from 32 (space).
AsciiTable ==
    <<" ", "!", "dquote", "#", "$", "%", "&", "'", "(", ")", "*", "+", ",", "-", ".", "/",
      "0", "1", "2", "3", "4", "5", "6", "7", "8", "9", ":", ";", "<", "=", ">", "?",
      "@", "A", "B", "C", "D", "E", "F", "G", "H", "I", "J", "K", "L", "M", "N", "O",
      "P", "Q", "R", "S", "T", "U", "V", "W", "X", "Y", "Z", "[", "bslash", "]", "^", "_",
      "btick", "a", "b", "c", "d", "e", "f", "g", "h", "i", "j", "k", "l", "m", "n", "o",
      "p", "q", "r", "s", "t", "u", "v", "w", "x", "y", "z", "{", "|", "}", "~">>

Ord(c) == 31 + (CHOOSE i \in 1..Len(AsciiTable) : AsciiTable[i] = c)

\* The text written as a tuple of one-character strings.
S(t) == [i \in 1..Len(t) |-> Ord(t[i])]

Min(a, b) == IF a < b THEN a ELSE b

\* s[:n] and s[n:] of Python, for 0 <= n.
Take(s, n) == SubSeq(s, 1, Min(n, Len(s)))
Drop(s, n) == SubSeq(s, n + 1, Len(s))

\* str.startswith
StartsWith(s, p) == Len(s) >= Len(p) /\ SubSeq(s, 1, Len(p)) = p

\* The code points str.strip() removes (str.isspace).
Whitespace ==
    {9, 10, 11, 12, 13, 28, 29, 30, 31, 32, 133, 160, 5760, 8232, 8233, 8239, 8287, 12288}
    \cup (8192..8202)

RECURSIVE LStrip(_)
LStrip(s) == IF s # <<>> /\ Head(s) \in Whitespace THEN LStrip(Tail(s)) ELSE s

RECURSIVE RStrip(_)
RStrip(s) ==
    IF s # <<>> /\ s[Len(s)] \in Whitespace THEN RStrip(SubSeq(s, 1, Len(s) - 1)) ELSE s

Strip(s) == RStrip(LStrip(s))

\* The concatenation of the sequences ps[lo], ..., ps[hi], by halves.
RECURSIVE FlattenRange(_, _, _)
FlattenRange(ps, lo, hi) ==
    IF lo > hi THEN <<>>
    ELSE IF lo = hi THEN ps[lo]
    ELSE FlattenRange(ps, lo, (lo + hi) \div 2) \o FlattenRange(ps, ((lo + hi) \div 2) + 1, hi)

Flatten(ps) == FlattenRange(ps, 1, Len(ps))

\* ---------------------------------------------------------------- codecs

\* bytes.decode() (UTF-8, strict).  A byte in 128..191 continues a
\* character; any other byte leads one and says how many continuation bytes
\* follow.  The first continuation byte's range is narrower after E0, ED, F0
\* and F4 (no overlong forms, no surrogates, nothing above U+10FFFF).
IsCont(b) == b >= 128 /\ b <= 191

Utf8Need(b) ==
    IF b < 128 THEN 0
    ELSE IF b >= 194 /\ b <= 223 THEN 1
    ELSE IF b >= 224 /\ b <= 239 THEN 2
    ELSE IF b >= 240 /\ b <= 244 THEN 3
    ELSE -1

\* Whether a well-formed character starts at the lead byte bs[i].
Utf8CharAt(bs, i) ==
    LET b == bs[i]
        n == Utf8Need(b)
    IN
    /\ n >= 0
    /\ i + n <= Len(bs)
    /\ \A k \in (i + 1)..(i + n) : IsCont(bs[k])
    /\ (b = 224 => bs[i + 1] >= 160)
    /\ (b = 237 => bs[i + 1] <= 159)
    /\ (b = 240 => bs[i + 1] >= 144)
    /\ (b = 244 => bs[i + 1] <= 143)
    /\ (i + n < Len(bs) => ~IsCont(bs[i + n + 1]))

\* The code point of the character that starts at bs[i].
Utf8CodePoint(bs, i) ==
    LET b == bs[i] IN
    IF b < 128 THEN b
    ELSE IF b <= 223 THEN ((b - 192) * 64) + (bs[i + 1] - 128)
    ELSE IF b <= 239
         THEN ((b - 224) * 4096) + ((bs[i + 1] - 128) * 64) + (bs[i + 2] - 128)
    ELSE ((b - 240) * 262144) + ((bs[i + 1] - 128) * 4096) + ((bs[i + 2] - 128) * 64)
         + (bs[i + 3] - 128)

\* The code points, or ok = FALSE for UnicodeDecodeError.
Utf8Decode(bs) ==
    IF /\ (bs # <<>> => ~IsCont(bs[1]))
       /\ \A i \in 1..Len(bs) : ~IsCont(bs[i]) => Utf8CharAt(bs, i)
    THEN [ok |-> TRUE,
          text |-> Flatten([i \in 1..Len(bs) |->
                       IF IsCont(bs[i]) THEN <<>> ELSE <<Utf8CodePoint(bs, i)>>])]
    ELSE [ok |-> FALSE, text |-> <<>>]

\* str.encode() (UTF-8) of decoded text.
Utf8EncodeChar(c) ==
    IF c < 128 THEN <<c>>
    ELSE IF c < 2048 THEN <<192 + (c \div 64), 128 + (c % 64)>>
    ELSE IF c < 65536
         THEN <<224 + (c \div 4096), 128 + ((c \div 64) % 64), 128 + (c % 64)>>
    ELSE <<240 + (c \div 262144), 128 + ((c \div 4096) % 64), 128 + ((c \div 64) % 64),
           128 + (c % 64)>>

Utf8Encode(t) == Flatten([i \in 1..Len(t) |-> Utf8EncodeChar(t[i])])

\* The value of a base64 digit; 64 for any other character.
B64Value(c) ==
    IF c >= 65 /\ c <= 90 THEN c - 65
    ELSE IF c >= 97 /\ c <= 122 THEN c - 71
    ELSE IF c >= 48 /\ c <= 57 THEN c + 4
    ELSE IF c = 43 THEN 62
    ELSE IF c = 47 THEN 63
    ELSE 64

IsB64Digit(c) == B64Value(c) < 64

\* base64.b64decode(s) with validate=False, as binascii.a2b_base64 reads s:
\* characters outside the alphabet are skipped; a "=" met when the current
\* quad holds q >= 2 digits counts as a pad (the count restarts at each
\* digit), and the pad that completes the quad (q + pads >= 4) ends the
\* data; other "=" are skipped.
B64QuadPos(s, i) == Cardinality({j \in 1..(i - 1) : IsB64Digit(s[j])}) % 4

B64Pads(s, i) ==
    Cardinality({j \in 1..i : s[j] = 61 /\ \A k \in j..i : ~IsB64Digit(s[k])})

B64EndsAt(s, i) ==
    /\ s[i] = 61
    /\ B64QuadPos(s, i) >= 2
    /\ B64QuadPos(s, i) + B64Pads(s, i) >= 4

\* The decoded bytes: each quad of digits gives three bytes, a last quad of
\* two or three digits one or two.  ok = FALSE for binascii.Error (the data
\* ends inside a quad with no pad sequence closing it) and for ValueError
\* (text that is not ASCII).
B64Decode(s) ==
    LET ends == {i \in 1..Len(s) : B64EndsAt(s, i)}
        last == IF ends = {} THEN Len(s)
                ELSE CHOOSE i \in ends : \A j \in ends : i <= j
        v == [k \in 1..Len(SelectSeq(SubSeq(s, 1, last), IsB64Digit)) |->
                 B64Value(SelectSeq(SubSeq(s, 1, last), IsB64Digit)[k])]
        n == Len(v)
        count == (3 * (n \div 4)) + (IF n % 4 >= 2 THEN (n % 4) - 1 ELSE 0)
        byte(k) ==
            LET g == 4 * ((k - 1) \div 3) IN
            IF (k - 1) % 3 = 0 THEN (v[g + 1] * 4) + (v[g + 2] \div 16)
            ELSE IF (k - 1) % 3 = 1 THEN ((v[g + 2] % 16) * 16) + (v[g + 3] \div 4)
            ELSE ((v[g + 3] % 4) * 64) + v[g + 4]
    IN
    IF \E i \in 1..Len(s) : s[i] >= 128 THEN [ok |-> FALSE, bytes |-> <<>>]
    ELSE IF ends = {} /\ n % 4 # 0 THEN [ok |-> FALSE, bytes |-> <<>>]
    ELSE [ok |-> TRUE, bytes |-> [k \in 1..count |-> byte(k)]]

\* int(s) of a header value: surrounding whitespace, an optional sign, then
\* decimal digits; anything else is ValueError (ok = FALSE).
RECURSIVE DigitsValue(_, _)
DigitsValue(s, acc) ==
    IF s = <<>> THEN acc ELSE DigitsValue(Tail(s), (acc * 10) + (Head(s) - 48))

ParseInt(s) ==
    LET t == Strip(s)
        signed == t # <<>> /\ Head(t) \in {43, 45}
        digits == IF signed THEN Tail(t) ELSE t
    IN
    IF digits = <<>> \/ \E i \in 1..Len(digits) : digits[i] < 48 \/ digits[i] > 57
    THEN [ok |-> FALSE, val |-> 0]
    ELSE [ok |-> TRUE,
          val |-> IF signed /\ Head(t) = 45
                  THEN 0 - DigitsValue(digits, 0)
                  ELSE DigitsValue(digits, 0)]

\* ---------------------------------------------------------------- config

AUTH_USER == S(<<"g", "w", "_", "u", "s", "e", "r">>)

AUTH_PASS == S(<<"g", "w", "_", "s", "e", "c", "r", "e", "t", "_", "p", "a", "s", "s">>)

PROXIES ==
    << [ip |-> S(<<"1", "8", "5", ".", "2", "1", "8", ".", "1", ".", "2", "2", "0">>),
        port |-> 4319],
       [ip |-> S(<<"1", "8", "5", ".", "2", "1", "8", ".", "2", ".", "1", "0", "0">>),
        port |-> 4319],
       [ip |-> S(<<"1", "7", "2", ".", "2", "5", "2", ".", "5", "7", ".", "5", "0">>),
        port |-> 4319] >>

\* ------------------------------------------------------------ check_auth

\* headers.get(name, default)
HeaderGet(headers, name, default) ==
    IF \E h \in headers : h[1] = name
    THEN (CHOOSE h \in headers : h[1] = name)[2]
    ELSE default

BasicPrefix == S(<<"B", "a", "s", "i", "c", " ">>)

\* check_auth(headers): "true", "false", or "raise" when b64decode or
\* .decode() raises.
check_auth(headers) ==
    LET auth == HeaderGet(headers, "Authorization", <<>>) IN
    IF ~StartsWith(auth, BasicPrefix) THEN "false"
    ELSE LET raw == B64Decode(Drop(auth, 6)) IN
         IF ~raw.ok THEN "raise"
         ELSE LET decoded == Utf8Decode(raw.bytes) IN
              IF ~decoded.ok THEN "raise"
              ELSE IF decoded.text = AUTH_USER \o <<58>> \o AUTH_PASS THEN "true"
              ELSE "false"

\* ------------------------------------------------------ replace_client_ip

ClientIpPattern == S(<<"C", "l", "i", "e", "n", "t", "I", "p", "=">>)

Amp == 38

\* Whether ClientIp=[^&]+ matches at position i of url, and where that
\* match ends: [^&]+ takes every character up to the next "&" or the end.
MatchesAt(url, i) ==
    /\ i + Len(ClientIpPattern) <= Len(url)
    /\ SubSeq(url, i, i + Len(ClientIpPattern) - 1) = ClientIpPattern
    /\ url[i + Len(ClientIpPattern)] # Amp

MatchEnd(url, i) ==
    LET stops == {j \in (i + Len(ClientIpPattern))..Len(url) : url[j] = Amp} IN
    IF stops = {} THEN Len(url)
    ELSE (CHOOSE j \in stops : \A k \in stops : j <= k) - 1

\* re.sub(pattern, 'ClientIp=' + proxy_ip, url) for a pattern given by its
\* matches: ends[i] is where the match that starts at position i ends, 0 when
\* none starts there.  re.sub replaces the matches found scanning from the
\* left, each search starting where the last match ended: position i is
\* inside a match when a match could start before it and reach it; a match
\* that starts outside every other is replaced, the characters inside a match
\* are dropped, every other character is copied.
ReSub(url, proxy_ip, ends) ==
    LET inside(i) == \E j \in 1..(i - 1) : ends[j] # 0 /\ i <= ends[j] IN
    Flatten([i \in 1..Len(url) |->
                IF inside(i) THEN <<>>
                ELSE IF ends[i] # 0 THEN ClientIpPattern \o proxy_ip
                ELSE <<url[i]>>])

\* re.sub(r'ClientIp=', ...): the value is left in place after the new one.
PrefixAt(url, i) ==
    /\ i + Len(ClientIpPattern) - 1 <= Len(url)
    /\ SubSeq(url, i, i + Len(ClientIpPattern) - 1) = ClientIpPattern

PrefixEnd(url, i) == i + Len(ClientIpPattern) - 1

replace_client_ip_keeps_value(url, proxy_ip) ==
    ReSub(url, proxy_ip,
          [i \in 1..Len(url) |-> IF PrefixAt(url, i) THEN PrefixEnd(url, i) ELSE 0])

\* re.sub(r'ClientIp=[^&]+', f'ClientIp={proxy_ip}', url): a match anywhere
\* in the string is replaced.  (The configured IPs hold no backslash, so the
\* replacement template is literal.)
replace_client_ip(url, proxy_ip) ==
    ReSub(url, proxy_ip,
          [i \in 1..Len(url) |-> IF MatchesAt(url, i) THEN MatchEnd(url, i) ELSE 0])

\* -------------------------------------------------------- fetch_via_proxy

\* What one proxy attempt meets upstream: a transport error (refused,
\* timeout, proxy authentication, DNS), or the final HTTP response.
Xml == S(<<"<", "o", "k", "/", ">">>)

AllFailedText == S(<<"a", "l", "l", "_", "p", "r", "o", "x", "i", "e", "s", "_",
                     "f", "a", "i", "l", "e", "d">>)

UpstreamOutcomes ==
    { [kind |-> "error", status |-> 0, body |-> <<>>],
      [kind |-> "response", status |-> 200, body |-> Xml],
      [kind |-> "response", status |-> 200, body |-> <<60, 195, 169, 62>>],
      [kind |-> "response", status |-> 200, body |-> AllFailedText],
      [kind |-> "response", status |-> 200, body |-> <<60, 255, 62>>],
      [kind |-> "response", status |-> 204, body |-> <<>>],
      [kind |-> "response", status |-> 404, body |-> Xml],
      [kind |-> "response", status |-> 500, body |-> Xml] }

\* An opener that hands back every response, whatever its status.
opener_open_any_status(upstream) ==
    IF upstream.kind = "error" THEN [raised |-> "URLError", body |-> <<>>]
    ELSE [raised |-> "", body |-> upstream.body]

\* opener.open(req, timeout=15) of build_opener(proxy_handler): URLError on a
\* transport error; the opener's HTTPErrorProcessor raises HTTPError for a
\* final status outside 200..299; otherwise the response is returned.
opener_open(upstream) ==
    IF upstream.kind = "error" THEN [raised |-> "URLError", body |-> <<>>]
    ELSE IF upstream.status < 200 \/ upstream.status >= 300
         THEN [raised |-> "HTTPError", body |-> <<>>]
    ELSE [raised |-> "", body |-> upstream.body]

\* fetch_via_proxy(proxy, target_url), given what the attempt meets upstream:
\* every exception of open/read/decode is caught and becomes ok = FALSE.
fetch_via_proxy(proxy, target_url, upstream) ==
    LET resp == opener_open(upstream) IN
    IF resp.raised # ""
    THEN [ok |-> FALSE, body |-> <<>>, proxy_ip |-> <<>>, error |-> resp.raised]
    ELSE LET text == Utf8Decode(resp.body) IN
         IF ~text.ok
         THEN [ok |-> FALSE, body |-> <<>>, proxy_ip |-> <<>>,
               error |-> "UnicodeDecodeError"]
         ELSE [ok |-> TRUE, body |-> text.text, proxy_ip |-> proxy.ip, error |-> ""]

\* The URL fetch_via_proxy requests through the proxy.
RequestedUrl(proxy, target_url) == replace_client_ip(target_url, proxy.ip)

\* --------------------------------------------------------------- requests

AuthGood ==
    S(<<"B", "a", "s", "i", "c", " ", "Z", "3", "d", "f", "d", "X", "N", "l", "c", "j",
        "p", "n", "d", "1", "9", "z", "Z", "W", "N", "y", "Z", "X", "R", "f", "c", "G",
        "F", "z", "c", "w", "=", "=">>)

\* The same credentials with a character outside the base64 alphabet.
AuthGoodJunk ==
    S(<<"B", "a", "s", "i", "c", " ", "Z", "3", "d", "f", "d", "X", "N", "l", "c", "j",
        "p", "n", "!", "d", "1", "9", "z", "Z", "W", "N", "y", "Z", "X", "R", "f", "c",
        "G", "F", "z", "c", "w", "=", "=">>)

\* gw_user:wrong
AuthWrongPass ==
    S(<<"B", "a", "s", "i", "c", " ", "Z", "3", "d", "f", "d", "X", "N", "l", "c", "j",
        "p", "3", "c", "m", "9", "u", "Z", "w", "=", "=">>)

AuthBearer == S(<<"B", "e", "a", "r", "e", "r", " ", "Z", "3", "d", "f">>)

AuthLower ==
    S(<<"b", "a", "s", "i", "c", " ", "Z", "3", "d", "f", "d", "X", "N", "l", "c", "j",
        "p", "n", "d", "1", "9", "z", "Z", "W", "N", "y", "Z", "X", "R", "f", "c", "G",
        "F", "z", "c", "w", "=", "=">>)

\* The credentials' base64 without its padding: binascii.Error.
AuthNoPad ==
    S(<<"B", "a", "s", "i", "c", " ", "Z", "3", "d", "f", "d", "X", "N", "l", "c", "j",
        "p", "n", "d", "1", "9", "z", "Z", "W", "N", "y", "Z", "X", "R", "f", "c", "G",
        "F", "z", "c", "w">>)

\* Base64 of the single byte 0xFF: UnicodeDecodeError.
AuthNotText == S(<<"B", "a", "s", "i", "c", " ", "/", "w", "=", "=">>)

AuthValues ==
    {AuthGood, AuthGoodJunk, AuthWrongPass, AuthBearer, AuthLower, AuthNoPad,
     AuthNotText, BasicPrefix}

BodyScenario ==
    S(<<"h", "t", "t", "p", "s", ":", "/", "/", "a", "p", "i", ".", "e", "x", "a", "m",
        "p", "l", "e", ".", "c", "o", "m", "/", "x", "m", "l", ".", "r", "e", "s", "p",
        "o", "n", "s", "e", "?", "C", "o", "m", "m", "a", "n", "d", "=", "f", "o", "o",
        "&", "C", "l", "i", "e", "n", "t", "I", "p", "=", "0", ".", "0", ".", "0", ".",
        "0">>)

BodyNoParam == S(<<"h", "t", "t", "p", "s", ":", "/", "/", "h", "/", "?", "a", "=", "1">>)

BodyHttp ==
    S(<<"h", "t", "t", "p", ":", "/", "/", "h", "/", "?", "C", "l", "i", "e", "n", "t",
        "I", "p", "=", "1">>)

BodyUpper == S(<<"H", "T", "T", "P", "S", ":", "/", "/", "h", "/">>)

\* Request bodies, as bytes: URLs, one with surrounding whitespace, the empty
\* body, bodies that are not https URLs and bodies that are not UTF-8.
Bodies ==
    { BodyScenario,
      <<32, 10>> \o BodyNoParam \o <<13, 10>>,
      BodyNoParam \o <<255>>,
      <<>>,
      BodyHttp,
      BodyUpper,
      <<255, 254>> }

RECURSIVE IntToText(_)
IntToText(n) ==
    IF n < 10 THEN <<48 + n>> ELSE IntToText(n \div 10) \o <<48 + (n % 10)>>

\* Content-Length values a client may send with the body: the body's length,
\* a shorter length, a padded number, -1 (read to the end of the stream), a
\* length below -1, and text that is no number.
ContentLengthValues(body) ==
    { IntToText(Len(body)),
      <<32>> \o IntToText(Len(body)),
      IntToText(Len(body) \div 2),
      S(<<"-", "1">>),
      S(<<"-", "2">>),
      S(<<"a", "b", "c">>) }

Methods == {"GET", "HEAD", "POST"}

\* A request's headers: a set of <<name, value>> pairs with at most one value
\* for a name.
HeaderSets(body) ==
    { a \cup c :
        a \in {{}} \cup {{<<"Authorization", v>>} : v \in AuthValues},
        c \in {{}} \cup {{<<"Content-Length", v>>} : v \in ContentLengthValues(body)} }

Requests ==
    UNION { { [method |-> m, headers |-> h, body |-> b] : m \in Methods, h \in HeaderSets(b) }
            : b \in Bodies }

NoRequest == [method |-> "", headers |-> {}, body |-> <<>>]

NoResponse == [status |-> 0, headers |-> {}, body |-> <<>>]

\* ----------------------------------------------------------------- state

VARIABLES
    pc,          \* where the server is in handling the current request
    request,     \* the request being handled
    target_url,  \* do_POST's target_url
    index,       \* the position of do_POST's loop in PROXIES
    attempts,    \* the attempts of this request, in order, as logged
    response,    \* the response written to the client (status 0: none)
    rw           \* a rewrite of one URL, applied once and again

vars == <<pc, request, target_url, index, attempts, response, rw>>

server_vars == <<pc, request, target_url, index, attempts, response>>

NoRewrite == [url |-> <<>>, host |-> <<>>, once |-> <<>>, twice |-> <<>>, stage |-> 0]

Init ==
    /\ pc = "idle"
    /\ request = NoRequest
    /\ target_url = <<>>
    /\ index = 0
    /\ attempts = <<>>
    /\ response = NoResponse
    /\ rw = NoRewrite

\* ------------------------------------------------------------- do_POST

HttpsPrefix == S(<<"h", "t", "t", "p", "s", ":", "/", "/">>)

UnauthorizedText == S(<<"U", "n", "a", "u", "t", "h", "o", "r", "i", "z", "e", "d">>)

InvalidUrlText == S(<<"I", "n", "v", "a", "l", "i", "d", " ", "U", "R", "L">>)

TextXml == S(<<"t", "e", "x", "t", "/", "x", "m", "l">>)

\* int(self.headers.get('Content-Length', 0))
content_length(headers) ==
    IF \E h \in headers : h[1] = "Content-Length"
    THEN ParseInt(HeaderGet(headers, "Content-Length", <<>>))
    ELSE [ok |-> TRUE, val |-> 0]

\* self.rfile.read(length) on a stream that holds the body and then ends:
\* at most length bytes, everything for -1, ValueError below -1.
rfile_read(body, length) ==
    IF length < -1 THEN [ok |-> FALSE, bytes |-> <<>>]
    ELSE IF length = -1 THEN [ok |-> TRUE, bytes |-> body]
    ELSE [ok |-> TRUE, bytes |-> Take(body, length)]

\* The list walked from its end.
ProxyAtReversed(k) == PROXIES[Len(PROXIES) + 1 - k]

\* for proxy in PROXIES: the proxy of the k-th iteration.
ProxyAt(k) == PROXIES[k]

\* A loop that leaves out the last proxy.
LoopExhaustedEarly(k) == k >= Len(PROXIES)

\* for proxy in PROXIES: whether the list is exhausted at the k-th iteration.
LoopExhausted(k) == k > Len(PROXIES)

\* The server accepts a connection and parses the request line and headers.
Receive ==
    /\ pc = "idle"
    /\ \E r \in Requests : request' = r
    /\ pc' = "dispatch"
    /\ target_url' = <<>>
    /\ index' = 0
    /\ attempts' = <<>>
    /\ response' = NoResponse
    /\ UNCHANGED rw

\* Handler defines do_POST alone: for any other method the base handler
\* answers 501 (its error page is left out).
Dispatch ==
    /\ pc = "dispatch"
    /\ IF request.method = "POST"
       THEN pc' = "auth" /\ UNCHANGED response
       ELSE /\ response' = [status |-> 501, headers |-> {}, body |-> <<>>]
            /\ pc' = "done"
    /\ UNCHANGED <<request, target_url, index, attempts, rw>>

\* do_POST, the authentication check.  An exception of check_auth leaves
\* do_POST: the server logs it and closes the connection, nothing is written.
DoPostAuth ==
    /\ pc = "auth"
    /\ LET a == check_auth(request.headers) IN
       IF a = "raise" THEN pc' = "fault" /\ UNCHANGED response
       ELSE IF a = "false"
            THEN /\ response' = [status |-> 401, headers |-> {}, body |-> UnauthorizedText]
                 /\ pc' = "done"
       ELSE pc' = "body" /\ UNCHANGED response
    /\ UNCHANGED <<request, target_url, index, attempts, rw>>

\* do_POST, reading and validating the target URL.
DoPostBody ==
    /\ pc = "body"
    /\ LET length == content_length(request.headers)
           raw == rfile_read(request.body, length.val)
           text == Utf8Decode(raw.bytes)
           url == Strip(text.text)
       IN
       IF ~length.ok \/ ~raw.ok \/ ~text.ok
       THEN pc' = "fault" /\ UNCHANGED <<response, target_url, index>>
       ELSE IF ~StartsWith(url, HttpsPrefix)
            THEN /\ response' = [status |-> 400, headers |-> {}, body |-> InvalidUrlText]
                 /\ pc' = "done"
                 /\ UNCHANGED <<target_url, index>>
       ELSE /\ target_url' = url
            /\ index' = 1
            /\ pc' = "loop"
            /\ UNCHANGED response
    /\ UNCHANGED <<request, attempts, rw>>

\* do_POST, one iteration of the loop over PROXIES.
TryProxy ==
    /\ pc = "loop"
    /\ ~LoopExhausted(index)
    /\ \E upstream \in UpstreamOutcomes :
          LET proxy == ProxyAt(index)
              result == fetch_via_proxy(proxy, target_url, upstream)
          IN
          /\ attempts' = Append(attempts,
                 [ip |-> proxy.ip, port |-> proxy.port,
                  url |-> RequestedUrl(proxy, target_url),
                  upstream |-> upstream, ok |-> result.ok, error |-> result.error])
          /\ IF result.ok
             THEN /\ response' =
                        [status |-> 200,
                         headers |-> {<<"Content-Type", TextXml>>,
                                      <<"X-Proxy-IP", result.proxy_ip>>},
                         body |-> Utf8Encode(result.body)]
                  /\ pc' = "done"
                  /\ UNCHANGED index
             ELSE /\ index' = index + 1
                  /\ UNCHANGED <<pc, response>>
    /\ UNCHANGED <<request, target_url, rw>>

\* do_POST, after the loop.
AllProxiesFailed ==
    /\ pc = "loop"
    /\ LoopExhausted(index)
    /\ response' = [status |-> 502, headers |-> {}, body |-> AllFailedText]
    /\ pc' = "done"
    /\ UNCHANGED <<request, target_url, index, attempts, rw>>

\* The request is over (answered, or dropped after an exception) and the
\* server waits for the next one; nothing of the request is kept.
Finish ==
    /\ pc \in {"done", "fault"}
    /\ pc' = "idle"
    /\ request' = NoRequest
    /\ target_url' = <<>>
    /\ index' = 0
    /\ attempts' = <<>>
    /\ response' = NoResponse
    /\ UNCHANGED rw

Next ==
    \/ Receive
    \/ Dispatch
    \/ DoPostAuth
    \/ DoPostBody
    \/ TryProxy
    \/ AllProxiesFailed
    \/ Finish

Spec == Init /\ [][Next]_vars

\* ------------------------------------------- replace_client_ip on its own

MaxParts == 4

Scheme == S(<<"h", "t", "t", "p", "s", ":", "/", "/", "h", "/">>)

\* The pieces URLs are put together from: ClientIp=, Client, X, 1, &, ?, #
UrlParts ==
    {ClientIpPattern, S(<<"C", "l", "i", "e", "n", "t">>), <<88>>, <<49>>, <<Amp>>, <<63>>,
     <<35>>}

RECURSIVE UrlTails(_)
UrlTails(n) ==
    IF n = 0 THEN {<<>>}
    ELSE UrlTails(n - 1) \cup {p \o t : p \in UrlParts, t \in UrlTails(n - 1)}

Urls == {Scheme \o t : t \in UrlTails(MaxParts)}

ProxyHosts == {PROXIES[k].ip : k \in 1..Len(PROXIES)}

InitRewrite ==
    /\ pc = "idle"
    /\ request = NoRequest
    /\ target_url = <<>>
    /\ index = 0
    /\ attempts = <<>>
    /\ response = NoResponse
    /\ rw \in {[url |-> u, host |-> h, once |-> <<>>, twice |-> <<>>, stage |-> 0] :
                 u \in Urls, h \in ProxyHosts}

RewriteOnce ==
    /\ rw.stage = 0
    /\ rw' = [rw EXCEPT !.once = replace_client_ip(rw.url, rw.host), !.stage = 1]
    /\ UNCHANGED server_vars

RewriteAgain ==
    /\ rw.stage = 1
    /\ rw' = [rw EXCEPT !.twice = replace_client_ip(rw.once, rw.host), !.stage = 2]
    /\ UNCHANGED server_vars

NextRewrite == RewriteOnce \/ RewriteAgain

SpecRewrite == InitRewrite /\ [][NextRewrite]_vars

\* ================================================================ claims

Handled == pc \in {"done", "fault"}

XProxyIp == HeaderGet(response.headers, "X-Proxy-IP", <<>>)

HasHeader(headers, name) == \E h \in headers : h[1] = name

\* The body, after leading ASCII whitespace, starts with https://
BodyStartsWithHttps(body) ==
    \E n \in 0..Len(body) :
        /\ \A i \in 1..n : body[i] \in {9, 10, 11, 12, 13, 32}
        /\ StartsWith(Drop(body, n), HttpsPrefix)

AllAttemptsFailed ==
    /\ Len(attempts) = Len(PROXIES)
    /\ \A k \in 1..Len(attempts) : ~attempts[k].ok

\* C1: a POST whose Authorization header is missing, is not Basic, does not
\* decode, or decodes to anything but the configured user:pass is answered
\* with status 401, whatever the body.
C1_BadCredentialsGet401 ==
    (Handled /\ request.method = "POST" /\ check_auth(request.headers) # "true")
        => response.status = 401

\* C2: the endpoints are attempted in list order; when attempt i is the first
\* to succeed, attempts 1..i-1 were made before it and failed, no endpoint
\* after i is attempted, and the response is 200 with endpoint i's host in
\* X-Proxy-IP and that attempt's body.
C2_FirstSuccessInListOrder ==
    /\ Len(attempts) <= Len(PROXIES)
    /\ \A k \in 1..Len(attempts) :
          /\ attempts[k].ip = PROXIES[k].ip
          /\ attempts[k].port = PROXIES[k].port
          /\ (k < Len(attempts) => ~attempts[k].ok)
    /\ (pc = "loop" => index = Len(attempts) + 1 /\ \A k \in 1..Len(attempts) : ~attempts[k].ok)
    /\ (attempts # <<>> /\ attempts[Len(attempts)].ok) =>
          /\ pc = "done"
          /\ response.status = 200
          /\ XProxyIp = PROXIES[Len(attempts)].ip
          /\ response.body = attempts[Len(attempts)].upstream.body
    /\ response.status = 200 => (attempts # <<>> /\ attempts[Len(attempts)].ok)

C2_Witness ==
    /\ pc = "done"
    /\ Len(attempts) = 3
    /\ attempts[3].ok
    /\ response.status = 200
    /\ XProxyIp = PROXIES[3].ip

\* C3: for an authenticated request with an https:// body, the response is
\* 502 with body all_proxies_failed exactly when every configured endpoint
\* was attempted and failed, and then it carries no upstream body and no
\* X-Proxy-IP header.
C3_AllFailedIff502 ==
    (Handled /\ check_auth(request.headers) = "true" /\ BodyStartsWithHttps(request.body))
        => /\ (response.status = 502 /\ response.body = AllFailedText) <=> AllAttemptsFailed
           /\ response.status = 502 =>
                 /\ response.body = AllFailedText
                 /\ ~HasHeader(response.headers, "X-Proxy-IP")
                 /\ response.headers = {}
           /\ AllAttemptsFailed => pc = "done"

C3_Witness ==
    /\ pc = "done"
    /\ response.status = 502
    /\ AllAttemptsFailed
    /\ \E k \in 1..Len(attempts) : attempts[k].upstream.kind = "response"

\* C4: a POST with valid credentials whose body does not start with https://
\* (the empty body too) is answered with status 400 and no endpoint is
\* attempted.
C4_NonHttpsBodyGets400 ==
    (Handled /\ request.method = "POST" /\ check_auth(request.headers) = "true"
             /\ ~BodyStartsWithHttps(request.body))
        => (response.status = 400 /\ attempts = <<>>)

\* C5: every request, however ill-formed, ends with an HTTP response, and an
\* internal fault is answered with a 5xx.
C5_EveryRequestAnswered ==
    Handled => /\ response.status # 0
               /\ (pc = "fault" => response.status \in 500..599)

\* C6: a request of any method that carries no Authorization header is
\* answered with status 401.
C6_NoAuthorizationGets401 ==
    (Handled /\ ~HasHeader(request.headers, "Authorization")) => response.status = 401

\* ---- the rewrite the claims describe: the query parameter named ClientIp

\* The end of the URL before its fragment, and the "?" that opens the query
\* (0: there is no query).
FragmentAt(url) ==
    IF \E i \in 1..Len(url) : url[i] = 35
    THEN CHOOSE i \in 1..Len(url) : url[i] = 35 /\ \A j \in 1..(i - 1) : url[j] # 35
    ELSE Len(url) + 1

QueryAt(url) ==
    IF \E i \in 1..(FragmentAt(url) - 1) : url[i] = 63
    THEN CHOOSE i \in 1..(FragmentAt(url) - 1) : url[i] = 63 /\ \A j \in 1..(i - 1) : url[j] # 63
    ELSE 0

\* A query parameter named ClientIp starts at position i.
ParamAt(url, i) ==
    /\ QueryAt(url) > 0
    /\ i > QueryAt(url)
    /\ (i = QueryAt(url) + 1 \/ url[i - 1] = Amp)
    /\ i + Len(ClientIpPattern) - 1 < FragmentAt(url)
    /\ SubSeq(url, i, i + Len(ClientIpPattern) - 1) = ClientIpPattern

\* The last position of that parameter's value.
ParamEnd(url, i) ==
    LET stops == {j \in (i + Len(ClientIpPattern))..(FragmentAt(url) - 1) : url[j] = Amp} IN
    IF stops = {} THEN FragmentAt(url) - 1
    ELSE (CHOOSE j \in stops : \A k \in stops : j <= k) - 1

HasClientIpParam(url) == \E i \in 1..Len(url) : ParamAt(url, i)

\* url with the value of every query parameter named ClientIp set to host,
\* and nothing else changed.
SetClientIpParam(url, host) ==
    ReSub(url, host,
          [i \in 1..Len(url) |-> IF ParamAt(url, i) THEN ParamEnd(url, i) ELSE 0])

\* C7: replace_client_ip sets the value of the query parameter named
\* ClientIp to the endpoint host and leaves every other query parameter and
\* every other URL segment unchanged.
C7_OnlyClientIpParamRewritten ==
    rw.stage >= 1 => rw.once = SetClientIpParam(rw.url, rw.host)

\* C8: rewriting is idempotent: replace_client_ip applied again with the same
\* host gives what the first application gave.
C8_RewriteIdempotent == rw.stage = 2 => rw.twice = rw.once

C8_Witness ==
    /\ rw.stage = 2
    /\ rw.once # rw.url
    /\ HasClientIpParam(rw.url)

\* C9: a URL with no query parameter named ClientIp is returned unmodified.
C9_AbsentParamUnmodified ==
    (rw.stage >= 1 /\ ~HasClientIpParam(rw.url)) => rw.once = rw.url

\* An attempt that met an upstream response with a status outside 200..299.
NonSuccessStatus(a) ==
    a.upstream.kind = "response" /\ (a.upstream.status < 200 \/ a.upstream.status >= 300)

\* C10, as claimed: an upstream response with a non-2xx status is treated as
\* success: the loop stops at that endpoint and the relay answers 200 with
\* that response's body and that endpoint's host in X-Proxy-IP.
C10_NonSuccessStatusIsSuccess ==
    \A k \in 1..Len(attempts) :
        NonSuccessStatus(attempts[k]) =>
            /\ attempts[k].ok
            /\ Len(attempts) = k
            /\ pc = "done"
            /\ response.status = 200
            /\ XProxyIp = attempts[k].ip
            /\ response.body = attempts[k].upstream.body

\* C10, amended: an upstream response with a non-2xx status is a failed
\* attempt (HTTPError): the loop goes on to the next endpoint, and the relay
\* answers 200 only from a later endpoint that succeeded, 502
\* all_proxies_failed otherwise.
C10_NonSuccessStatusIsFailure ==
    \A k \in 1..Len(attempts) :
        NonSuccessStatus(attempts[k]) =>
            /\ ~attempts[k].ok
            /\ attempts[k].error = "HTTPError"
            /\ (pc = "loop" => index > k)
            /\ (pc = "done" =>
                  IF response.status = 200
                  THEN /\ Len(attempts) > k
                       /\ attempts[Len(attempts)].ok
                       /\ XProxyIp = attempts[Len(attempts)].ip
                       /\ XProxyIp # attempts[k].ip
                  ELSE /\ response.status = 502
                       /\ response.body = AllFailedText
                       /\ AllAttemptsFailed)

C10_Witness ==
    /\ pc = "done"
    /\ Len(attempts) = 2
    /\ attempts[1].upstream.status = 500
    /\ response.status = 200
    /\ XProxyIp = PROXIES[2].ip
====
